---------------------------- MODULE Spec2Model ----------------------------
(***************************************************************************)
(* PhysixPokitto: the fixed-point rigid-body toy of src/Game.h.            *)
(*                                                                         *)
(* A Number (SFixed<15,16>) is modelled by its 32-bit internal integer:    *)
(* the value v stands for v / 2^16.  Every arithmetic operator below works *)
(* on that internal integer and keeps the 32-bit width.  The model checker *)
(* evaluates on 32-bit integers itself, so products and sums are computed  *)
(* on 16-bit halves and reassembled; the result is the low 32 bits of the  *)
(* exact result, read as two's complement.                                 *)
(***************************************************************************)
EXTENDS Integers, Sequences, FiniteSets

VARIABLES
    objects,              \* RigidBody objects[8]: [px, py, vx, vy] each
    gravityEnabled,       \* bool gravityEnabled
    gravitationalForce,   \* Vector2 gravitationalForce: [x, y]
    statRenderingEnabled, \* bool statRenderingEnabled
    display,              \* <<Display::getWidth(), Display::getHeight()>>
    pc,                   \* where main() is: "setup", "input", "physics"
    last,                 \* the operation that produced this state
    before,               \* objects as simulatePhysics found them (last call)
    frames,               \* loop() iterations started so far
    rebound,              \* per body: |velocity.y| after its last two bounces
    firstPoint,           \* distanceSquared: argument firstPoint
    secondPoint,          \* distanceSquared: argument secondPoint
    distance              \* distanceSquared: [signed, unsigned] result

vars == <<objects, gravityEnabled, gravitationalForce, statRenderingEnabled,
          display, pc, last, before, frames, rebound, firstPoint, secondPoint,
          distance>>

----------------------------------------------------------------------------
(* Bounds of the model *)

\* loop() iterations explored from setup()
MaxFrames == 2

\* simulatePhysics calls explored from each drawn world
MaxSteps == 4

----------------------------------------------------------------------------
(* SFixed<15,16> and UFixed<16,16> *)

FractionSize == 16

Scale == 65536

HalfScale == Scale \div 2

MinInternal == -2147483647 - 1

\* low and high 16-bit halves of a 32-bit internal value
Lo16(x) == x % Scale

Hi16(x) == (x - (x % Scale)) \div Scale

\* the two's complement value of the 32 bits hi:lo (hi, lo in 0..65535)
Signed(hi, lo) == (IF hi >= HalfScale THEN hi - Scale ELSE hi) * Scale + lo

\* SFixed operator +=: the internal values are added in 32 bits; a sum past
\* the int32_t range is taken as the two's complement wrap of the target
Add(x, y) ==
    LET lo == Lo16(x) + Lo16(y)
        hi == (Hi16(x) + Hi16(y) + (lo \div Scale)) % Scale
    IN  Signed(hi, lo % Scale)

\* SFixed unary operator -
Neg(x) == IF x = MinInternal THEN x ELSE 0 - x

\* SFixed operator -: the internal values are subtracted in 32 bits
Sub(x, y) == Add(x, Neg(y))

\* floor(a * b / 2^16) for a, b in 0..65535
MulLow(a, b) ==
    LET a1 == a \div 256
        a0 == a % 256
    IN  ((a1 * b) + ((a0 * b) \div 256)) \div 256

\* SFixed operator *: the 64-bit product shifted right by FractionSize
\* (arithmetic shift: rounds toward minus infinity), cast to 32 bits
Mul(a, b) ==
    LET ah == Hi16(a)
        al == Lo16(a)
        bh == Hi16(b)
        bl == Lo16(b)
        t1 == ah * bl
        t2 == al * bh
        lo == Lo16(t1) + Lo16(t2) + MulLow(al, bl)
        hi == (((ah * bh) % Scale) + (Hi16(t1) % Scale) + (Hi16(t2) % Scale)
                 + (lo \div Scale)) % Scale
    IN  Signed(hi, lo % Scale)

\* SFixed(int): the integer shifted left by FractionSize
FromInt(n) == n * Scale

\* SFixed(integer, fraction): (integer << FractionSize) | fraction
MakeNumber(integer, fraction) == (integer * Scale) + fraction

\* Number::Epsilon: the internal value 1
Epsilon == 1

\* fromSigned: the same 32 bits read as UFixed<16,16>, as <<high, low>> halves
\* (the unsigned value is high * 2^16 + low, in units of 2^-16)
fromSigned(value) == <<Hi16(value) % Scale, Lo16(value)>>

\* square(T value)
square(value) == Mul(value, value)

----------------------------------------------------------------------------
(* Game's constants *)

\* Number(0.95): static_cast<int32_t>(0.95 * 65536)
CoefficientOfFriction == 62259

\* Number(0.5)
CoefficientOfGravity == 32768

\* Number(0.3): static_cast<int32_t>(0.3 * 65536)
CoefficientOfRestitution == 19660

RestitutionThreshold == Mul(Epsilon, FromInt(16))

\* Number(0.25)
InputForce == 16384

\* RigidBody objects[8]
NumObjects == 8

\* the 8 of Display::getWidth() - 8
BodySize == 8

Bodies == 0 .. (NumObjects - 1)

\* playerObject always refers to objects[0]
playerObject == 0

\* the screen sizes Pokitto::Display reports: low and high resolution
DisplayModes == {<<110, 88>>, <<220, 176>>}

Width(d) == d[1]

Height(d) == d[2]

RigidBody(px, py, vx, vy) == [px |-> px, py |-> py, vx |-> vx, vy |-> vy]


----------------------------------------------------------------------------
(* Physics/Point.h *)

\* distanceSquared with the components added where they are subtracted
distanceSquared_Added(p, q) ==
    LET sum == Add(square(Add(p.x, q.x)), square(Add(p.y, q.y)))
    IN  [signed |-> sum, unsigned |-> fromSigned(sum)]

\* distanceSquared(firstPoint, secondPoint): the signed sum of the squared
\* component differences and the same bits as a NumberU
distanceSquared(p, q) ==
    LET sum == Add(square(Sub(p.x, q.x)), square(Sub(p.y, q.y)))
    IN  [signed |-> sum, unsigned |-> fromSigned(sum)]

----------------------------------------------------------------------------
(* rand(): one body's share of the stream in randomiseObjects, already reduced:
   x = rand() % width, y = rand() % height, a and b = rand() % 16,
   af and bf = rand() % (1 << FractionSize) *)

Draw(x, y, a, af, b, bf) == [x |-> x, y |-> y, a |-> a, af |-> af, b |-> b, bf |-> bf]

\* the outcomes explored: a cyclic stream, read from any starting offset
Draws(d) ==
    << Draw(0, Height(d) - 1, 0, 0, 0, 0),
       Draw(Width(d) - 1, 0, 15, 65535, 15, 65535),
       Draw(Width(d) \div 2, Height(d) - 7, 8, 1, 8, 1),
       Draw(Width(d) - 8, Height(d) - 8, 6, 62087, 7, 65535),
       Draw(1, 1, 8, 0, 8, 0) >>

NumDraws == Len(Draws(<<BodySize, BodySize>>))

DrawFor(d, seed, i) == Draws(d)[((seed + i) % NumDraws) + 1]

\* RandPosition drawing from 1 .. width and 1 .. height
RandPosition_OneBeyond(o, r) == [o EXCEPT !.px = FromInt(r.x + 1), !.py = FromInt(r.y + 1)]

\* object.position = Point2(Number(rand() % getWidth()), Number(rand() % getHeight()))
RandPosition(o, r) == [o EXCEPT !.px = FromInt(r.x), !.py = FromInt(r.y)]

\* the velocity kick: y only with gravity, both axes without
RandVelocity(o, r, ge) ==
    IF ge
    THEN [o EXCEPT !.vy = Add(o.vy, MakeNumber(r.a - 8, r.af))]
    ELSE [o EXCEPT !.vx = Add(o.vx, MakeNumber(r.a - 8, r.af)),
                   !.vy = Add(o.vy, MakeNumber(r.b - 8, r.bf))]

\* Game::randomiseObjects
randomiseObjects(objs, ge, d, seed) ==
    [i \in Bodies |-> RandVelocity(RandPosition(objs[i], DrawFor(d, seed, i)),
                                   DrawFor(d, seed, i), ge)]

----------------------------------------------------------------------------
(* Game::simulatePhysics, one object *)

\* First, simulate gravity
ApplyGravity(o, ge, gf) ==
    IF ge
    THEN [o EXCEPT !.vx = Add(o.vx, gf.x), !.vy = Add(o.vy, gf.y)]
    ELSE o

\* Then, simulate friction
ApplyFriction(o, ge) ==
    IF ge
    THEN [o EXCEPT !.vx = Mul(o.vx, CoefficientOfFriction)]
    ELSE [o EXCEPT !.vx = Mul(o.vx, CoefficientOfFriction),
                   !.vy = Mul(o.vy, CoefficientOfFriction)]

\* BounceLeft that clamps and keeps the direction
BounceLeft_KeepsDirection(o) ==
    IF o.px < FromInt(0)
    THEN [o EXCEPT !.px = FromInt(0)]
    ELSE o

\* the left wall, then the right wall
BounceLeft(o) ==
    IF o.px < FromInt(0)
    THEN [o EXCEPT !.px = FromInt(0), !.vx = Neg(o.vx)]
    ELSE o

BounceRight(o, d) ==
    IF o.px > FromInt(Width(d) - BodySize)
    THEN [o EXCEPT !.px = FromInt(Width(d) - BodySize), !.vx = Neg(o.vx)]
    ELSE o

\* if(object.velocity.y > RestitutionThreshold) ... else object.velocity.y = 0
Restitution(vy) ==
    IF vy > RestitutionThreshold
    THEN Mul(Neg(vy), CoefficientOfRestitution)
    ELSE 0

\* gravity enabled: the top wall, then the bottom wall
HaltTop(o) ==
    IF o.py < FromInt(0)
    THEN [o EXCEPT !.py = FromInt(0), !.vy = Restitution(o.vy)]
    ELSE o

HaltBottom(o, d) ==
    IF o.py > FromInt(Height(d) - BodySize)
    THEN [o EXCEPT !.py = FromInt(Height(d) - BodySize), !.vy = Restitution(o.vy)]
    ELSE o

\* gravity disabled: bounce off the y sides as well
BounceTop(o) ==
    IF o.py < FromInt(0)
    THEN [o EXCEPT !.py = FromInt(0), !.vy = Neg(o.vy)]
    ELSE o

BounceBottom(o, d) ==
    IF o.py > FromInt(Height(d) - BodySize)
    THEN [o EXCEPT !.py = FromInt(Height(d) - BodySize), !.vy = Neg(o.vy)]
    ELSE o

KeepOnscreen(o, ge, d) ==
    LET h == BounceRight(BounceLeft(o), d)
    IN  IF ge
        THEN HaltBottom(HaltTop(h), d)
        ELSE BounceBottom(BounceTop(h), d)

\* Finally, update position using velocity
Integrate(o) == [o EXCEPT !.px = Add(o.px, o.vx), !.py = Add(o.py, o.vy)]

\* StepObject moving the position by the velocity the step found
StepObject_MovesFirst(o, ge, gf, d) ==
    LET turned == KeepOnscreen(ApplyFriction(ApplyGravity(o, ge, gf), ge), ge, d)
    IN  [turned EXCEPT !.px = Add(turned.px, o.vx), !.py = Add(turned.py, o.vy)]

\* the body of the loop over objects
StepObject(o, ge, gf, d) ==
    Integrate(KeepOnscreen(ApplyFriction(ApplyGravity(o, ge, gf), ge), ge, d))

\* Game::simulatePhysics
simulatePhysics(objs, ge, gf, d) ==
    [i \in Bodies |-> StepObject(objs[i], ge, gf, d)]

----------------------------------------------------------------------------
(* Game::updateInput *)

Buttons == {"A", "B", "UP", "DOWN", "LEFT", "RIGHT"}

\* the button states explored in a frame
ButtonCombos ==
    { {}, {"LEFT"}, {"RIGHT", "DOWN"}, {"UP"}, {"A", "RIGHT"},
      {"B"}, {"B", "A"}, {"B", "DOWN"}, {"B", "UP"}, {"B", "LEFT"},
      {"B", "A", "DOWN"}, {"B", "A", "DOWN", "UP", "LEFT"} }

\* the force the held directions add up to
playerForce(held) ==
    [x |-> Add(IF "LEFT" \in held THEN Neg(InputForce) ELSE 0,
               IF "RIGHT" \in held THEN InputForce ELSE 0),
     y |-> Add(IF "UP" \in held THEN Neg(InputForce) ELSE 0,
               IF "DOWN" \in held THEN InputForce ELSE 0)]

\* normal object control: the force, then the emergency stop
ControlPlayer(o, held) ==
    IF "A" \in held
    THEN [o EXCEPT !.vx = 0, !.vy = 0]
    ELSE [o EXCEPT !.vx = Add(o.vx, playerForce(held).x),
                   !.vy = Add(o.vy, playerForce(held).y)]

\* -gravitationalForce
NegVector(v) == [x |-> Neg(v.x), y |-> Neg(v.y)]

----------------------------------------------------------------------------
(* Bookkeeping for the properties: which bodies bounce, and how hard *)

Abs(x) == IF x < 0 THEN 0 - x ELSE x

LeftBound == FromInt(0)

RightBound(d) == FromInt(Width(d) - BodySize)

TopBound == FromInt(0)

BottomBound(d) == FromInt(Height(d) - BodySize)

\* the body takes no boundary branch in a step that finds it like this
Inside(o, d) ==
    /\ o.px >= LeftBound /\ o.px <= RightBound(d)
    /\ o.py >= TopBound /\ o.py <= BottomBound(d)

\* the body is beyond the top or the bottom bound
CrossesY(o, d) == o.py < TopBound \/ o.py > BottomBound(d)

\* the next simulatePhysics takes this body through the restitution branch
\* with velocity.y > RestitutionThreshold
WillBounce(o) ==
    /\ gravityEnabled
    /\ CrossesY(o, display)
    /\ Add(o.vy, gravitationalForce.y) > RestitutionThreshold

\* the last two rebound speeds of a body, the newer one last
Remember(rs, v) == IF Len(rs) < 2 THEN Append(rs, v) ELSE <<rs[2], v>>

Rebounds(rs, objs, next) ==
    [i \in Bodies |-> IF WillBounce(objs[i])
                      THEN Remember(rs[i], Abs(next[i].vy))
                      ELSE rs[i]]

----------------------------------------------------------------------------
(* The program: main() runs setup(), then loop() for ever; loop() runs
   updateInput() and then simulatePhysics().  renderObjects() and
   renderDisplay() only read the objects and count the frames drawn; they
   are left out. *)

Origin == [x |-> 0, y |-> 0]

NoDistance == [signed |-> 0, unsigned |-> <<0, 0>>]

\* the Game object as constructed
Init ==
    /\ display \in DisplayModes
    /\ objects = [i \in Bodies |-> RigidBody(0, 0, 0, 0)]
    /\ gravityEnabled = FALSE
    /\ gravitationalForce = [x |-> 0, y |-> CoefficientOfGravity]
    /\ statRenderingEnabled = TRUE
    /\ pc = "setup"
    /\ last = "construct"
    /\ before = objects
    /\ frames = 0
    /\ rebound = [i \in Bodies |-> <<>>]
    /\ firstPoint = Origin
    /\ secondPoint = Origin
    /\ distance = NoDistance

\* Game::setup
Setup ==
    /\ pc = "setup"
    /\ \E seed \in 0 .. (NumDraws - 1) :
         objects' = [randomiseObjects(objects, gravityEnabled, display, seed)
                       EXCEPT ![playerObject] =
                         RigidBody(FromInt(Width(display) \div 2),
                                   FromInt(Height(display) \div 2), 0, 0)]
    /\ pc' = "input"
    /\ last' = "setup"
    /\ UNCHANGED <<gravityEnabled, gravitationalForce, statRenderingEnabled,
                   display, before, frames, rebound, firstPoint, secondPoint,
                   distance>>

\* Game::updateInput with B held: the tools for playing around
PlayAround(held) ==
    /\ "B" \in held
    /\ IF "A" \in held
       THEN /\ \E seed \in 0 .. (NumDraws - 1) :
                 objects' = randomiseObjects(objects, gravityEnabled, display, seed)
            /\ last' = "randomise"
       ELSE /\ objects' = objects
            /\ last' = "input"
    /\ gravityEnabled' = IF "DOWN" \in held THEN ~gravityEnabled ELSE gravityEnabled
    /\ gravitationalForce' =
         IF "UP" \in held THEN NegVector(gravitationalForce) ELSE gravitationalForce
    /\ statRenderingEnabled' =
         IF "LEFT" \in held THEN ~statRenderingEnabled ELSE statRenderingEnabled

\* Game::updateInput with B not held: normal object control
Control(held) ==
    /\ "B" \notin held
    /\ objects' = [objects EXCEPT ![playerObject] = ControlPlayer(@, held)]
    /\ last' = "input"
    /\ UNCHANGED <<gravityEnabled, gravitationalForce, statRenderingEnabled>>

\* Game::updateInput
UpdateInput ==
    /\ pc = "input"
    /\ frames < MaxFrames
    /\ \E held \in ButtonCombos : PlayAround(held) \/ Control(held)
    /\ pc' = "physics"
    /\ frames' = frames + 1
    /\ UNCHANGED <<display, before, rebound, firstPoint, secondPoint, distance>>

\* Game::simulatePhysics, called by loop()
SimulatePhysics ==
    /\ pc = "physics"
    /\ before' = objects
    /\ objects' = simulatePhysics(objects, gravityEnabled, gravitationalForce, display)
    /\ rebound' = Rebounds(rebound, objects, objects')
    /\ pc' = "input"
    /\ last' = "step"
    /\ UNCHANGED <<gravityEnabled, gravitationalForce, statRenderingEnabled,
                   display, frames, firstPoint, secondPoint, distance>>

Next == Setup \/ UpdateInput \/ SimulatePhysics

Spec == Init /\ [][Next]_vars

----------------------------------------------------------------------------
(* simulatePhysics on its own: the worlds it is applied to are drawn from a
   bounded set of body states, and it is then called repeatedly, with no
   input in between *)

\* Number(0.5)
Half == Scale \div 2

\* the body states drawn: one per wall on either side of it, and interior
\* bodies moving in either direction on either axis
StartBodies(d) ==
    << RigidBody(FromInt(-1), FromInt(Height(d) \div 2), FromInt(2), 0),
       RigidBody(FromInt(Width(d) - BodySize + 1), FromInt(Height(d) - BodySize + 1),
                 FromInt(-2), Epsilon),
       RigidBody(FromInt(20), FromInt(20), FromInt(1), FromInt(-1)),
       RigidBody(FromInt(30), FromInt(30), -19, 0 - Epsilon),
       RigidBody(FromInt(40), FromInt(40), 3, 0),
       RigidBody(FromInt(50), FromInt(-1), 0, FromInt(-2)),
       RigidBody(FromInt(10), FromInt(Height(d) - BodySize) + Half, InputForce, FromInt(3)),
       RigidBody(FromInt(10), 0 - Half, 0 - InputForce, FromInt(1)) >>

StartFor(d, seed, i) == StartBodies(d)[((seed + i) % Len(StartBodies(d))) + 1]

InitWorld(kind) ==
    /\ display \in DisplayModes
    /\ gravitationalForce \in {[x |-> 0, y |-> CoefficientOfGravity],
                               [x |-> 0, y |-> Neg(CoefficientOfGravity)]}
    /\ statRenderingEnabled = TRUE
    /\ pc = kind
    /\ last = "construct"
    /\ frames = 0
    /\ rebound = [i \in Bodies |-> <<>>]
    /\ firstPoint = Origin
    /\ secondPoint = Origin
    /\ distance = NoDistance

InitStep ==
    /\ InitWorld("step")
    /\ gravityEnabled \in BOOLEAN
    /\ \E seed \in 0 .. (NumObjects - 1) :
         objects = [i \in Bodies |-> StartFor(display, seed, i)]
    /\ before = objects

\* Game::simulatePhysics, called again and again
Step ==
    /\ pc = "step"
    /\ frames < MaxSteps
    /\ before' = objects
    /\ objects' = simulatePhysics(objects, gravityEnabled, gravitationalForce, display)
    /\ rebound' = Rebounds(rebound, objects, objects')
    /\ frames' = frames + 1
    /\ last' = "step"
    /\ UNCHANGED <<gravityEnabled, gravitationalForce, statRenderingEnabled,
                   display, pc, firstPoint, secondPoint, distance>>

SpecStep == InitStep /\ [][Step]_vars

----------------------------------------------------------------------------
(* Gravity enabled, no input: bodies dropped from rest or thrown at the floor,
   with no horizontal motion.  main() calls loop() for as long as the device
   runs, so a step that can be taken is taken. *)

DropBodies(d) ==
    << RigidBody(FromInt(10), FromInt(Height(d) - BodySize), 0, 0),
       RigidBody(FromInt(20), FromInt(Height(d) - BodySize + 1), 0, Epsilon),
       RigidBody(FromInt(30), FromInt(Height(d) - 12), 0, FromInt(3)),
       RigidBody(FromInt(40), FromInt(Height(d) - 16), 0, FromInt(-1)) >>

DropFor(d, seed, i) == DropBodies(d)[((seed + i) % Len(DropBodies(d))) + 1]

InitBounce ==
    /\ InitWorld("run")
    /\ gravityEnabled = TRUE
    /\ \E seed \in 0 .. (Len(DropBodies(display)) - 1) :
         objects = [i \in Bodies |-> DropFor(display, seed, i)]
    /\ before = objects

Run ==
    /\ pc = "run"
    /\ before' = objects
    /\ objects' = simulatePhysics(objects, gravityEnabled, gravitationalForce, display)
    /\ rebound' = Rebounds(rebound, objects, objects')
    /\ last' = "step"
    /\ UNCHANGED <<gravityEnabled, gravitationalForce, statRenderingEnabled,
                   display, pc, frames, firstPoint, secondPoint, distance>>

SpecBounce == InitBounce /\ [][Run]_vars /\ WF_vars(Run)

----------------------------------------------------------------------------
(* distanceSquared on its own: the points are drawn from the display *)

Point2(x, y) == [x |-> x, y |-> y]

\* points of [0, width) x [0, height): corners, whole and fractional coordinates
Points(d) ==
    { Point2(0, 0), Point2(Epsilon, 0), Point2(Half, Half),
      Point2(FromInt(3), FromInt(4)), Point2(FromInt(1) + Half, FromInt(2) + 16384),
      Point2(FromInt(Width(d) - 1), FromInt(Height(d) - 1)),
      Point2(FromInt(Width(d) - 1), 0), Point2(0, FromInt(Height(d) - 1)),
      Point2(FromInt(Width(d) - 1) + 65535, FromInt(Height(d) - 1) + 65535) }

InitDist ==
    /\ display \in DisplayModes
    /\ objects = [i \in Bodies |-> RigidBody(0, 0, 0, 0)]
    /\ gravityEnabled = FALSE
    /\ gravitationalForce = [x |-> 0, y |-> CoefficientOfGravity]
    /\ statRenderingEnabled = TRUE
    /\ pc = "distance"
    /\ last = "construct"
    /\ before = objects
    /\ frames = 0
    /\ rebound = [i \in Bodies |-> <<>>]
    /\ firstPoint \in Points(display)
    /\ secondPoint \in Points(display)
    /\ distance = NoDistance

Distance ==
    /\ pc = "distance"
    /\ distance' = distanceSquared(firstPoint, secondPoint)
    /\ pc' = "done"
    /\ last' = "distance"
    /\ UNCHANGED <<objects, gravityEnabled, gravitationalForce, statRenderingEnabled,
                   display, before, frames, rebound, firstPoint, secondPoint>>

SpecDist == InitDist /\ [][Distance]_vars

----------------------------------------------------------------------------
(* C1.  Boundary containment: after simulatePhysics returns, every body has
   position.x in [0, displayWidth - 8] and, with gravity disabled,
   position.y in [0, displayHeight - 8].
   The code clamps the position and then adds the velocity to it, so a body
   at a wall that moves outward ends the step beyond the wall. *)
C1_BoundaryContainment ==
    last = "step" =>
      \A i \in Bodies :
        /\ objects[i].px >= LeftBound
        /\ objects[i].px <= RightBound(display)
        /\ ~gravityEnabled =>
             /\ objects[i].py >= TopBound
             /\ objects[i].py <= BottomBound(display)

----------------------------------------------------------------------------
(* C2.  Elastic horizontal bounce, as claimed: a body that simulatePhysics
   finds at position.x = -1 with velocity.x = 2 ends the step at
   position.x = 0 with velocity.x = -2, in either gravity mode. *)
C2_ElasticBounceOriginal ==
    last = "step" =>
      \A i \in Bodies :
        (before[i].px = FromInt(-1) /\ before[i].vx = FromInt(2)) =>
          (objects[i].px = FromInt(0) /\ objects[i].vx = FromInt(-2))

(* C2, amended.  Friction scales velocity.x before the wall is tested and the
   position moves by the new velocity after the clamp: the body ends the step
   with velocity.x = -(2 * CoefficientOfFriction), which is -124518 / 65536,
   and position.x = 0 + velocity.x, in either gravity mode. *)
C2_ElasticBounceAmended ==
    last = "step" =>
      \A i \in Bodies :
        (before[i].px = FromInt(-1) /\ before[i].vx = FromInt(2)) =>
          /\ objects[i].vx = -124518
          /\ objects[i].vx = Neg(Mul(FromInt(2), CoefficientOfFriction))
          /\ objects[i].px = objects[i].vx

\* a step has been taken, with gravity enabled, from a world holding the body
C2_Witness ==
    /\ last = "step"
    /\ gravityEnabled
    /\ \E i \in Bodies : before[i].px = FromInt(-1) /\ before[i].vx = FromInt(2)

----------------------------------------------------------------------------
(* C3.  Rest convergence under gravity: with gravity enabled, a body that
   simulatePhysics finds at position.y = displayHeight - 8 + 1 with
   velocity.y = Epsilon ends the step with velocity.y = 0. *)
C3_RestConvergence ==
    (last = "step" /\ gravityEnabled) =>
      \A i \in Bodies :
        (/\ before[i].py = FromInt(Height(display) - BodySize + 1)
         /\ before[i].vy = Epsilon) =>
          objects[i].vy = 0

----------------------------------------------------------------------------
(* C4.  No perpetual bouncing: with gravity enabled and no input, the rebound
   velocity.y of a body is strictly smaller at each bounce than at its bounce
   before, so that the bouncing dies out. *)
C4_NoPerpetualBouncing ==
    \A i \in Bodies :
      Len(rebound[i]) = 2 => rebound[i][2] < rebound[i][1]

----------------------------------------------------------------------------
(* C5.  Friction monotonicity: with gravity disabled, a step that finds a body
   inside the bounds with a non-zero velocity strictly decreases its speed
   (no component grows, one shrinks) and changes no component's sign. *)
C5_FrictionMonotonicity ==
    (last = "step" /\ ~gravityEnabled) =>
      \A i \in Bodies :
        (Inside(before[i], display) /\ (before[i].vx # 0 \/ before[i].vy # 0)) =>
          /\ Abs(objects[i].vx) <= Abs(before[i].vx)
          /\ Abs(objects[i].vy) <= Abs(before[i].vy)
          /\ \/ Abs(objects[i].vx) < Abs(before[i].vx)
             \/ Abs(objects[i].vy) < Abs(before[i].vy)
          /\ (objects[i].vx > 0) = (before[i].vx > 0)
          /\ (objects[i].vx < 0) = (before[i].vx < 0)
          /\ (objects[i].vy > 0) = (before[i].vy > 0)
          /\ (objects[i].vy < 0) = (before[i].vy < 0)

----------------------------------------------------------------------------
(* C7.  Randomize bounds: after randomiseObjects returns, every body, the
   player included, has position.x in [0, displayWidth) and position.y in
   [0, displayHeight), in either gravity mode.  (updateInput touches no
   position after the call.) *)
C7_RandomizeBounds ==
    last = "randomise" =>
      \A i \in Bodies :
        /\ objects[i].px >= 0 /\ objects[i].px < FromInt(Width(display))
        /\ objects[i].py >= 0 /\ objects[i].py < FromInt(Height(display))

\* randomiseObjects has run with gravity enabled and put the player on the
\* last column
C7_Witness ==
    /\ last = "randomise"
    /\ gravityEnabled
    /\ objects[playerObject].px = FromInt(Width(display) - 1)

----------------------------------------------------------------------------
(* C8.  distanceSquared against the exact sum of squares.  For a difference
   of magnitude I + f / 2^16 (I whole, 0 <= f < 2^16) the square is
   I^2 + 2 * I * f / 2^16 + f^2 / 2^32; the sums below are in units of 2^-16,
   kept as 16-bit halves <<high, low>>. *)

WholePart(a) == Abs(a) \div Scale

FractionPart(a) == Abs(a) % Scale

\* the part of a difference's square below 2^-16 is zero
SquareIsExact(a) ==
    LET h == FractionPart(a) \div 256
        l == FractionPart(a) % 256
    IN  ((2 * h * l * 256) + (l * l)) % Scale = 0

\* floor(dx^2 * 2^16) + floor(dy^2 * 2^16), as <<high, low>>
FlooredSquares(dx, dy) ==
    LET low == (2 * WholePart(dx) * FractionPart(dx))
                 + MulLow(FractionPart(dx), FractionPart(dx))
                 + (2 * WholePart(dy) * FractionPart(dy))
                 + MulLow(FractionPart(dy), FractionPart(dy))
    IN  << (WholePart(dx) * WholePart(dx)) + (WholePart(dy) * WholePart(dy))
             + (low \div Scale),
           low % Scale >>

DeltaX == Sub(firstPoint.x, secondPoint.x)

DeltaY == Sub(firstPoint.y, secondPoint.y)

(* C8, as claimed: for every two points of the display, distanceSquared
   returns (p.x - q.x)^2 + (p.y - q.y)^2 exactly, and the signed intermediate
   sum neither wraps nor turns negative. *)
C8_DistanceSquaredOriginal ==
    last = "distance" =>
      /\ distance.signed >= 0
      /\ FlooredSquares(DeltaX, DeltaY)[1] < HalfScale
      /\ distance.unsigned = FlooredSquares(DeltaX, DeltaY)
      /\ SquareIsExact(DeltaX)
      /\ SquareIsExact(DeltaY)

(* C8, amended.  Each square is rounded down to a multiple of Epsilon, and the
   sum is held in 15 integer bits.  Whenever the sum of the rounded squares is
   below 32768, as it is for every two points of a 110 x 88 display,
   distanceSquared returns that sum: non-negative, not wrapped, the same
   number as a NumberU, and equal to (p.x - q.x)^2 + (p.y - q.y)^2 when both
   squares need no rounding (whole differences, for one). *)
C8_DistanceSquaredAmended ==
    last = "distance" =>
      LET exact == FlooredSquares(DeltaX, DeltaY)
      IN  /\ display = <<110, 88>> => exact[1] < HalfScale
          /\ exact[1] < HalfScale =>
               /\ distance.signed >= 0
               /\ distance.signed = (exact[1] * Scale) + exact[2]
               /\ distance.unsigned = exact
               /\ (FractionPart(DeltaX) = 0 /\ FractionPart(DeltaY) = 0) =>
                    distance.signed =
                      FromInt((WholePart(DeltaX) * WholePart(DeltaX))
                                + (WholePart(DeltaY) * WholePart(DeltaY)))

\* distanceSquared has measured the diagonal of the 110 x 88 display
C8_Witness ==
    /\ last = "distance"
    /\ display = <<110, 88>>
    /\ firstPoint = Point2(0, 0)
    /\ secondPoint = Point2(FromInt(109), FromInt(87))
    /\ distance.unsigned = <<19450, 0>>

----------------------------------------------------------------------------
(* C9.  Gravity-mode restitution decided on the magnitude of velocity.y, the
   same at both walls: a body found beyond the top or the bottom bound ends
   the step with velocity.y = -v * CoefficientOfRestitution when
   |v| > RestitutionThreshold and with velocity.y = 0 otherwise, v being
   velocity.y as the boundary test reads it (gravity added). *)
C9_SymmetricRestitution ==
    (last = "step" /\ gravityEnabled) =>
      \A i \in Bodies :
        CrossesY(before[i], display) =>
          LET v == Add(before[i].vy, gravitationalForce.y)
          IN  objects[i].vy = IF Abs(v) > RestitutionThreshold
                              THEN Mul(Neg(v), CoefficientOfRestitution)
                              ELSE 0

----------------------------------------------------------------------------
(* C10.  Step ordering: a body that takes no boundary branch ends the step
   with, gravity enabled, velocity.x = (velocity.x + gravitationalForce.x)
   * CoefficientOfFriction and velocity.y = velocity.y + gravitationalForce.y;
   gravity disabled, both components scaled by CoefficientOfFriction and no
   gravity added; and in both modes the position moved by the new velocity. *)
C10_StepOrdering ==
    last = "step" =>
      \A i \in Bodies :
        Inside(before[i], display) =>
          /\ gravityEnabled =>
               /\ objects[i].vx = Mul(Add(before[i].vx, gravitationalForce.x),
                                      CoefficientOfFriction)
               /\ objects[i].vy = Add(before[i].vy, gravitationalForce.y)
          /\ ~gravityEnabled =>
               /\ objects[i].vx = Mul(before[i].vx, CoefficientOfFriction)
               /\ objects[i].vy = Mul(before[i].vy, CoefficientOfFriction)
          /\ objects[i].px = Add(before[i].px, objects[i].vx)
          /\ objects[i].py = Add(before[i].py, objects[i].vy)

\* a step with gravity enabled has moved a body that was inside the bounds and
\* moving on both axes
C10_Witness ==
    /\ last = "step"
    /\ gravityEnabled
    /\ \E i \in Bodies :
         /\ Inside(before[i], display)
         /\ before[i].vx # 0
         /\ before[i].vy # 0
         /\ objects[i].px # before[i].px

============================================================================
